---------------------------- MODULE Spec2Model ----------------------------
(***************************************************************************)
(* Model of the Markdown Wiki main window (src/main.py): the project       *)
(* directory, the current file, the editor buffer with its unsaved-changes *)
(* flag, the window title, and link navigation with its path containment   *)
(* check.  Every handler of MarkdownWiki is one action; the handlers it    *)
(* calls (confirm_discard_changes, save_file, open_file, on_text_changed)  *)
(* are operators on a record of the window's fields.                       *)
(*                                                                         *)
(* A path is a record [abs, parts]: whether it starts at the root and the  *)
(* sequence of its segments, the information pathlib.Path keeps.  A link   *)
(* target is the raw string cut at its slashes, [abs, segs], with "." and  *)
(* empty segments still in it.                                             *)
(*                                                                         *)
(* The file tree of the sidebar (src/widgets/file_navigator.py) has its    *)
(* own specification, SpecTree: its handlers create, rename, cut, paste    *)
(* and delete entries of the filesystem.  The disk of SpecTree holds one   *)
(* symbolic link whose target is missing; the paths the main window        *)
(* resolves never pass through a symbolic link.                            *)
(***************************************************************************)
EXTENDS Integers, Sequences, FiniteSets, TLC

\* Number of distinct non-empty texts the user can type into the editor.
NumTexts == 1

\* Number of leading characters save_file may cut from a clean window title
\* before the model stops saving an unchanged buffer again.
MaxTrim == 1

None == [none |-> TRUE]

NoAnswer == "NoAnswer"

\* QMessageBox.Save | QMessageBox.Discard | QMessageBox.Cancel
Answers == {"Save", "Discard", "Cancel"}

Texts == 0..NumTexts

-----------------------------------------------------------------------------
(* pathlib *)

AbsPath(parts) == [abs |-> TRUE, parts |-> parts]

\* The working directory of the process, against which Path.resolve() makes
\* a relative path absolute.  main starts the wiki in "./wiki/" below it.
Cwd == AbsPath(<<>>)

KeptSegment(seg) == seg \notin {".", ""}

\* Path(target_path): "." and empty segments are dropped, ".." is kept; the
\* empty string is Path("."), the relative path with no segments.
Path(target_path) ==
    [abs |-> target_path.abs, parts |-> SelectSeq(target_path.segs, KeptSegment)]

is_absolute(p) == p.abs

\* Path.parent
parent(p) ==
    [abs |-> p.abs,
     parts |-> IF Len(p.parts) = 0 THEN p.parts
               ELSE SubSeq(p.parts, 1, Len(p.parts) - 1)]

\* current_dir / path_obj
joinpath(dir, p) ==
    IF p.abs THEN p ELSE [abs |-> dir.abs, parts |-> dir.parts \o p.parts]

RECURSIVE Collapse(_, _)
Collapse(done, rest) ==
    IF rest = <<>> THEN done
    ELSE IF Head(rest) = ".."
         THEN Collapse(IF done = <<>> THEN done
                       ELSE SubSeq(done, 1, Len(done) - 1), Tail(rest))
         ELSE Collapse(Append(done, Head(rest)), Tail(rest))

\* Path.resolve(): absolute against the working directory, ".." collapsed
\* (".." at the root stays at the root).
resolve(p) ==
    AbsPath(Collapse(<<>>, IF p.abs THEN p.parts ELSE Cwd.parts \o p.parts))

\* Path.parents: the proper ancestors, compared segment by segment.
parents(p) ==
    {[abs |-> p.abs, parts |-> SubSeq(p.parts, 1, k)] : k \in 0..(Len(p.parts) - 1)}

\* os.path.basename / Path.name
basename(p) == IF Len(p.parts) = 0 THEN "" ELSE p.parts[Len(p.parts)]

-----------------------------------------------------------------------------
(* The filesystem: a function from the absolute paths that have an entry   *)
(* to what is there: a directory, a file with its text, or a symbolic link *)
(* whose target is missing.                                                *)

Dir == [kind |-> "dir", text |-> 0]

File(text) == [kind |-> "file", text |-> text]

\* A symbolic link whose target does not exist.
Link == [kind |-> "link", text |-> 0]

\* os.path.lexists: there is an entry at p.
lexists(files, p) == p \in DOMAIN files

\* Path.exists / os.path.exists follow symbolic links: a link whose target
\* is missing does not exist.
exists(files, p) == p \in DOMAIN files /\ files[p].kind # "link"

is_dir(files, p) == p \in DOMAIN files /\ files[p].kind = "dir"

is_file(files, p) == p \in DOMAIN files /\ files[p].kind = "file"

WikiDir == AbsPath(<<"wiki">>)

InitialFs ==
    (AbsPath(<<>>) :> Dir) @@
    (AbsPath(<<"wiki">>) :> Dir) @@
    (AbsPath(<<"wiki", "a">>) :> Dir) @@
    (AbsPath(<<"etc">>) :> Dir) @@
    (AbsPath(<<"wiki", "a", "b.md">>) :> File(0)) @@
    (AbsPath(<<"wiki", "a", "c.md">>) :> File(0)) @@
    (AbsPath(<<"etc", "passwd">>) :> File(0))

\* Path.mkdir(parents=True, exist_ok=True) on a path that is no file.
mkdir(files, p) ==
    LET q == resolve(p)
        missing == {d \in parents(q) \cup {q} : d \notin DOMAIN files}
    IN  [d \in missing |-> Dir] @@ files

-----------------------------------------------------------------------------
(* The main window.  A window record w carries the fields of MarkdownWiki  *)
(* and of its widgets, the filesystem, and a log of what the handler that  *)
(* is running has done so far: the answers given at the unsaved-changes    *)
(* prompt, the writes save_file attempted, the path checked for            *)
(* containment, the path handed to open_file and the result of its read,   *)
(* the last message it showed in the status bar and the last text it gave  *)
(* the renderer.                                                           *)

VARIABLES
    current_file,       \* self.current_file: None or the path of the open file
    project_dir,        \* self.project_dir: None until set_project_directory
    unsaved_changes,    \* self.unsaved_changes
    is_view_mode,       \* self.is_view_mode
    editor,             \* the text of self.md_editor
    title,              \* the window title, a sequence of characters
    fs,                 \* the filesystem
    cut_source_path,    \* file_navigator.cut_source_path: None or a path
    last                \* the last handler that ran: its input, the file
                        \* that was open when it started, and its log

vars == <<current_file, project_dir, unsaved_changes, is_view_mode, editor,
          title, fs, cut_source_path, last>>

EmptyLog ==
    [answers |-> <<>>, writes |-> <<>>, probed |-> None, opened |-> None,
     read |-> "none", status |-> "", rendered |-> None, dest |-> None,
     warning |-> ""]

Window ==
    [current_file |-> current_file, project_dir |-> project_dir,
     unsaved_changes |-> unsaved_changes, is_view_mode |-> is_view_mode,
     editor |-> editor, title |-> title, fs |-> fs, log |-> EmptyLog]

\* "Markdown Wiki", the title init_ui sets.
BaseTitle == <<"M", "a", "r", "k", "d", "o", "w", "n", " ", "W", "i", "k", "i">>

\* f"Markdown Wiki - {os.path.basename(file_path)}"; the file name is kept
\* as one element, the last of the title.
FileTitle(file_path) == BaseTitle \o <<" ", "-", " ", basename(file_path)>>

\* self.windowTitle()[1:]
DropFirst(t) == IF t = <<>> THEN t ELSE Tail(t)

\* md_renderer.render_markdown(text)
render_markdown(w, text) == [w EXCEPT !.log.rendered = text]

on_text_changed(w) ==
    IF ~w.unsaved_changes
    THEN [w EXCEPT !.unsaved_changes = TRUE, !.title = <<"*">> \o @]
    ELSE w

\* open(path, 'w') and f.write(content): fails when the environment refuses
\* it (writeOk false), when the path is a directory or when its directory is
\* gone; a write that fails leaves the file as it was.
CanWrite(files, p, writeOk) ==
    writeOk /\ ~is_dir(files, p) /\ is_dir(files, parent(p))

\* open(path, 'r') and f.read()
CanRead(files, p, readOk) == readOk /\ is_file(files, p)

\* save_file with unsaved_changes cleared outside the try block: a write
\* that fails clears the flag too.
save_file_clears_on_failure(w, writeOk) ==
    IF w.current_file = None
    THEN [w EXCEPT !.log.status = "No file to save",
                   !.log.writes = Append(@, "nofile")]
    ELSE IF ~CanWrite(w.fs, w.current_file, writeOk)
    THEN [w EXCEPT !.unsaved_changes = FALSE,
                   !.log.writes = Append(@, "fail")]
    ELSE [w EXCEPT !.fs = (w.current_file :> File(w.editor)) @@ @,
                   !.unsaved_changes = FALSE,
                   !.log.status = "Saved file",
                   !.log.rendered = IF w.is_view_mode THEN w.editor ELSE @,
                   !.log.writes = Append(@, "ok"),
                   !.title = DropFirst(@)]

save_file(w, writeOk) ==
    IF w.current_file = None
    THEN [w EXCEPT !.log.status = "No file to save",
                   !.log.writes = Append(@, "nofile")]
    ELSE IF ~CanWrite(w.fs, w.current_file, writeOk)
    THEN [w EXCEPT !.log.writes = Append(@, "fail")]
    ELSE LET content == w.editor
             a == [w EXCEPT !.fs = (w.current_file :> File(content)) @@ @,
                            !.unsaved_changes = FALSE,
                            !.log.status = "Saved file",
                            !.log.writes = Append(@, "ok")]
             b == IF a.is_view_mode THEN render_markdown(a, content) ELSE a
         IN  [b EXCEPT !.title = DropFirst(@)]

\* confirm_discard_changes with Cancel treated like Discard.
confirm_discard_changes_cancel_goes_on(w, response, writeOk) ==
    LET asked == [w EXCEPT !.log.answers = Append(@, response)]
    IN  IF response = "Save"
        THEN [w |-> save_file(asked, writeOk), go |-> TRUE]
        ELSE [w |-> asked, go |-> TRUE]

\* Returns the window and whether the caller may go on.
confirm_discard_changes(w, response, writeOk) ==
    LET asked == [w EXCEPT !.log.answers = Append(@, response)]
    IN  IF response = "Save"
        THEN [w |-> save_file(asked, writeOk), go |-> TRUE]
        ELSE IF response = "Discard"
        THEN [w |-> asked, go |-> TRUE]
        ELSE [w |-> asked, go |-> FALSE]

\* open_file with current_file assigned before the file is read.
open_file_assigns_first(w, file_path, response, writeOk, readOk) ==
    LET called == [w EXCEPT !.log.opened = file_path]
        gate == IF called.unsaved_changes
                THEN confirm_discard_changes(called, response, writeOk)
                ELSE [w |-> called, go |-> TRUE]
        g == [gate.w EXCEPT !.current_file = file_path]
    IN  IF ~gate.go THEN gate.w
        ELSE IF ~CanRead(g.fs, file_path, readOk)
        THEN [g EXCEPT !.log.read = "fail"]
        ELSE LET content == g.fs[file_path].text
                 a == on_text_changed([g EXCEPT !.editor = content])
                 b == render_markdown(a, content)
             IN  [b EXCEPT !.title = FileTitle(file_path),
                           !.unsaved_changes = FALSE,
                           !.log.status = "Opened file",
                           !.log.read = "ok"]

open_file(w, file_path, response, writeOk, readOk) ==
    LET called == [w EXCEPT !.log.opened = file_path]
        gate == IF called.unsaved_changes
                THEN confirm_discard_changes(called, response, writeOk)
                ELSE [w |-> called, go |-> TRUE]
        g == gate.w
    IN  IF ~gate.go THEN g
        ELSE IF ~CanRead(g.fs, file_path, readOk)
        THEN [g EXCEPT !.log.read = "fail"]
        ELSE LET content == g.fs[file_path].text
                 \* setPlainText emits textChanged
                 a == on_text_changed([g EXCEPT !.editor = content])
                 b == render_markdown(a, content)
             IN  [b EXCEPT !.current_file = file_path,
                           !.title = FileTitle(file_path),
                           !.unsaved_changes = FALSE,
                           !.log.status = "Opened file",
                           !.log.read = "ok"]

\* NavigationBase with the project directory as the base of relative links.
NavigationBase_project(w, path_obj) ==
    IF ~is_absolute(path_obj) /\ w.current_file # None /\ w.project_dir # None
    THEN resolve(joinpath(w.project_dir, path_obj))
    ELSE path_obj

\* The path a target stands for before the containment check: a relative
\* target is joined to the directory of the open file.
NavigationBase(w, path_obj) ==
    IF ~is_absolute(path_obj) /\ w.current_file # None
    THEN resolve(joinpath(parent(w.current_file), path_obj))
    ELSE path_obj

\* WithinProject without the test: every path is let through.
WithinProject_unchecked(dir, path_obj) == TRUE

\* The containment test, true when the path is let through.
WithinProject(dir, path_obj) ==
    ~(dir \notin parents(path_obj) /\ path_obj # dir)

navigate_to_file(w, target_path, response1, writeOk1, response2, writeOk2, readOk) ==
    LET gate == IF w.unsaved_changes
                THEN confirm_discard_changes(w, response1, writeOk1)
                ELSE [w |-> w, go |-> TRUE]
        g == gate.w
        path_obj == resolve(NavigationBase(g, Path(target_path)))
    IN  IF ~gate.go THEN g
        ELSE IF g.project_dir = None
        \* self.project_dir is no attribute yet: AttributeError, caught
        THEN [g EXCEPT !.log.status = "Navigation error"]
        ELSE LET probed == [g EXCEPT !.log.probed = path_obj]
             IN  IF ~WithinProject(g.project_dir, path_obj)
                 THEN [probed EXCEPT !.log.status = "Cannot navigate outside project directory"]
                 ELSE IF ~exists(g.fs, path_obj)
                 THEN [probed EXCEPT !.log.status = "does not exist"]
                 ELSE open_file(probed, path_obj, response2, writeOk2, readOk)

set_project_directory(w, directory_path) ==
    [w EXCEPT !.project_dir = Path(directory_path),
              !.fs = mkdir(@, Path(directory_path)),
              !.log.status = "Project opened"]

open_selected_path(w, path, response, writeOk, readOk) ==
    IF is_dir(w.fs, path) THEN w
    ELSE open_file(w, path, response, writeOk, readOk)

\* toggle_view_mode that, back in edit mode, fills the editor from the file
\* on disk again.
toggle_view_mode_reloads(w) ==
    LET a == [w EXCEPT !.is_view_mode = ~@]
    IN  IF a.is_view_mode
        THEN [render_markdown(a, a.editor) EXCEPT !.log.status = "View mode"]
        ELSE [a EXCEPT !.editor = IF is_file(a.fs, a.current_file)
                                  THEN a.fs[a.current_file].text ELSE @,
                       !.log.status = "Edit mode"]

toggle_view_mode(w) ==
    LET a == [w EXCEPT !.is_view_mode = ~@]
    IN  IF a.is_view_mode
        THEN [render_markdown(a, a.editor) EXCEPT !.log.status = "View mode"]
        ELSE [a EXCEPT !.log.status = "Edit mode"]

-----------------------------------------------------------------------------
(* Inputs *)

Target(abs, segs) == [abs |-> abs, segs |-> segs]

\* Link targets as the editor and the renderer emit them.
Targets ==
    { Target(FALSE, <<>>),                                  \* ""
      Target(FALSE, <<".", "c.md">>),                       \* ./c.md
      Target(FALSE, <<"a", "c.md">>),                       \* a/c.md
      Target(FALSE, <<"wiki", "a", "c.md">>),               \* wiki/a/c.md
      Target(FALSE, <<"..", "c.md">>),                      \* ../c.md
      Target(FALSE, <<"..", "..", "..", "etc", "passwd">>), \* ../../../etc/passwd
      Target(FALSE, <<".", "missing.md">>),                 \* ./missing.md
      Target(FALSE, <<"a">>),                               \* a
      Target(FALSE, <<"..">>),                              \* ..
      Target(TRUE, <<"etc", "passwd">>),                    \* /etc/passwd
      Target(TRUE, <<"wiki", "a", "c.md">>) }               \* /wiki/a/c.md

\* Directories a project is opened in: "./wiki/" as main does, "/wiki", and
\* "/notes", which does not exist yet.
ProjectDirectories ==
    { Target(FALSE, <<".", "wiki", "">>),
      Target(TRUE, <<"wiki">>),
      Target(TRUE, <<"notes">>) }

\* The entries the tree view shows: everything below the root path that
\* set_project_directory gave the file system model.  The model's filter
\* (AllEntries | NoDotAndDotDot | Hidden) lists no link with a missing target.
TreeEntries ==
    IF project_dir = None THEN {}
    ELSE {p \in DOMAIN fs : resolve(project_dir) \in parents(p) /\ exists(fs, p)}

-----------------------------------------------------------------------------
(* Actions *)

Commit(w, op, target) ==
    /\ current_file' = w.current_file
    /\ project_dir' = w.project_dir
    /\ unsaved_changes' = w.unsaved_changes
    /\ is_view_mode' = w.is_view_mode
    /\ editor' = w.editor
    /\ title' = w.title
    /\ fs' = w.fs
    /\ cut_source_path' = cut_source_path
    /\ last' = [op |-> op, target |-> target, from |-> current_file,
                log |-> w.log]

Init ==
    /\ current_file = None
    /\ project_dir = None
    /\ unsaved_changes = FALSE
    /\ is_view_mode = FALSE
    /\ editor = 0
    /\ title = BaseTitle
    /\ fs = InitialFs
    /\ cut_source_path = None
    /\ last = [op |-> "init", target |-> None, from |-> None,
               log |-> [EmptyLog EXCEPT !.status = "Ready"]]

\* What the user answers at a prompt, if the handler raises one.
Responses(asks) == IF asks THEN Answers ELSE {NoAnswer}

\* Whether the write of a Save answer goes through, if there is a write.
WriteResults(w, response) ==
    IF response = "Save" /\ w.current_file # None THEN BOOLEAN ELSE {TRUE}

SetProjectDirectory ==
    \E directory_path \in ProjectDirectories :
        Commit(set_project_directory(Window, directory_path),
               "set_project_directory", directory_path)

\* The tree view's selection changes: handle_selection_change emits
\* selected_item and then shows "Selected: <name>" in the status bar.
OpenSelectedPath ==
    \E path \in TreeEntries :
    \E response \in Responses(unsaved_changes /\ ~is_dir(fs, path)) :
    \E writeOk \in WriteResults(Window, response) :
    \E readOk \in (IF response = "Cancel" \/ is_dir(fs, path) THEN {TRUE} ELSE BOOLEAN) :
        Commit([open_selected_path(Window, path, response, writeOk, readOk)
                   EXCEPT !.log.status = "Selected"],
               "open_selected_path", path)

\* The Save shortcut.  Saving a buffer without changes cuts a character
\* from the title each time; the model follows that for MaxTrim characters.
SaveFile ==
    /\ IF current_file = None \/ unsaved_changes THEN TRUE
       ELSE Len(title) > Len(FileTitle(current_file)) - MaxTrim
    /\ \E writeOk \in (IF current_file # None THEN BOOLEAN ELSE {TRUE}) :
           Commit(save_file(Window, writeOk), "save_file", None)

ToggleViewMode ==
    Commit(toggle_view_mode(Window), "toggle_view_mode", None)

\* A link is activated in the editor (Ctrl+Enter) or in the renderer.  The
\* run with Cancel as second answer tells whether open_file is called and
\* whether it raises the prompt again.
NavigateToFile ==
    \E target_path \in Targets :
    \E response1 \in Responses(unsaved_changes) :
    \E writeOk1 \in WriteResults(Window, response1) :
        LET probe == navigate_to_file(Window, target_path, response1, writeOk1,
                                      "Cancel", TRUE, TRUE)
            calls == probe.log.opened # None
            asks == Len(probe.log.answers) > (IF unsaved_changes THEN 1 ELSE 0)
        IN  \E response2 \in Responses(asks) :
            \E writeOk2 \in WriteResults(Window, response2) :
            \E readOk \in (IF calls /\ response2 # "Cancel" THEN BOOLEAN ELSE {TRUE}) :
                Commit(navigate_to_file(Window, target_path, response1, writeOk1,
                                        response2, writeOk2, readOk),
                       "navigate_to_file", target_path)

\* The user types in the editor, which is shown in edit mode only:
\* textChanged calls on_text_changed.
EditText ==
    /\ ~is_view_mode
    /\ \E text \in Texts \ {editor} :
           Commit(on_text_changed([Window EXCEPT !.editor = text]),
                  "on_text_changed", None)

Next ==
    \/ SetProjectDirectory
    \/ OpenSelectedPath
    \/ SaveFile
    \/ ToggleViewMode
    \/ NavigateToFile
    \/ EditText

Spec == Init /\ [][Next]_vars

-----------------------------------------------------------------------------
(* The file tree (src/widgets/file_navigator.py).  A navigator record n    *)
(* carries cut_source_path, the root path of the file system model, the    *)
(* filesystem and the log of the handler that is running: the destination  *)
(* path it computed (dest), the message it showed in the status bar and    *)
(* the warning box it raised.  The current index of the tree view is an    *)
(* input of each handler: None when it is invalid, else the absolute path  *)
(* of the entry.                                                           *)

\* Number of entries the disk may hold before the tree stops adding to it
\* (create_new_file, and a paste that copies and fails to remove the source).
MaxEntries == 6

Navigator ==
    [cut_source_path |-> cut_source_path, rootPath |-> project_dir, fs |-> fs,
     log |-> EmptyLog]

\* Names typed into the input dialogs; "old" is the name of the link.
FileNames == {"old", "d"}

\* Path.stem of the names that occur: the name without its last suffix.
stem(name) ==
    IF name = "b.md" THEN "b" ELSE IF name = "c.md" THEN "c" ELSE name

\* Path(name) of a name without slashes
NamePath(name) == [abs |-> FALSE, parts |-> <<name>>]

\* The entry at p and everything below it.
Subtree(files, p) == {q \in DOMAIN files : q = p \/ p \in parents(q)}

\* rename(2) of src to dst, dst having no entry or a link that is replaced:
\* the entry and what is below it move.
move(files, src, dst) ==
    LET moved == Subtree(files, src)
        Rebase(q) == AbsPath(dst.parts \o SubSeq(q.parts, Len(src.parts) + 1,
                                                 Len(q.parts)))
        landed == {Rebase(q) : q \in moved}
    IN  [q \in ((DOMAIN files \ moved) \cup landed) |->
            IF q \in landed
            THEN files[CHOOSE m \in moved : Rebase(m) = q]
            ELSE files[q]]

\* QFile.remove / QDir.removeRecursively
remove(files, p) ==
    [q \in (DOMAIN files \ Subtree(files, p)) |-> files[q]]

get_current_directory(n, index) ==
    IF index # None
    THEN IF is_dir(n.fs, index) THEN index ELSE parent(index)
    ELSE n.rootPath

\* ok and file_name are what the input dialog returns; osOk is false when
\* the system refuses the creation for another reason than an entry being
\* there.  touch(exist_ok=False) opens with O_CREAT | O_EXCL, which fails
\* on any entry, a link included.
create_new_file(n, index, file_name, ok, osOk) ==
    LET current_dir == get_current_directory(n, index)
        new_file == joinpath(current_dir, NamePath(file_name))
    IN  IF current_dir = None THEN n
        ELSE IF ~(ok /\ file_name # "") THEN n
        ELSE IF lexists(n.fs, resolve(new_file))
        THEN [n EXCEPT !.log.dest = new_file,
                       !.log.status = "A file with that name already exist. Nothing has been done."]
        ELSE IF ~osOk
        THEN [n EXCEPT !.log.dest = new_file,
                       !.log.status = "Error creating file"]
        ELSE [n EXCEPT !.fs = (resolve(new_file) :> File(0)) @@ @,
                       !.log.dest = new_file,
                       !.log.status = "Created file"]

delete_selected(n, index, confirm, success) ==
    IF index = None THEN n
    ELSE IF ~confirm THEN n
    ELSE IF success /\ lexists(n.fs, index)
    THEN [n EXCEPT !.fs = remove(@, index), !.log.status = "Deleted"]
    ELSE [n EXCEPT !.log.status = "Error deleting"]

\* ok and new_name are what the input dialog returns; osOk is false when
\* the system refuses the rename (PermissionError, OSError).  Path.rename
\* is rename(2): it replaces a file or a link at new_file, and fails when
\* the source is gone, or is a directory while new_file has an entry.
rename_selected(n, index, new_name, ok, osOk) ==
    IF index = None THEN n
    ELSE LET file == index
             name == stem(basename(file))
             folder == parent(file)
             new_file == joinpath(folder, NamePath(new_name))
         IN  IF ~ok THEN [n EXCEPT !.log.status = "Nothing has been done."]
             ELSE IF new_name = ""
             THEN [n EXCEPT !.log.status = "No new name has been given. Nothing has been done."]
             ELSE IF new_name = name
             THEN [n EXCEPT !.log.status = "New name and old name are the same. Nothing has been done."]
             ELSE IF exists(n.fs, new_file)
             THEN [n EXCEPT !.log.dest = new_file,
                            !.log.status = "File with this name already exists. Nothing has been done."]
             ELSE IF ~osOk \/ ~lexists(n.fs, file)
                     \/ (is_dir(n.fs, file) /\ lexists(n.fs, new_file))
             THEN [n EXCEPT !.log.dest = new_file, !.log.warning = "Error"]
             ELSE [n EXCEPT !.fs = move(@, file, new_file),
                            !.log.dest = new_file,
                            !.log.status = "Item renamed successfuly."]

cut_selected(n, index) ==
    IF index = None THEN n
    ELSE [n EXCEPT !.cut_source_path = index, !.log.status = "Cut"]

\* moved tells how the move goes when the system allows it: "renamed" by
\* QFile.rename, "copied" by the fallback QFile.copy and QFile.remove,
\* "kept" when the copy is made and the removal fails, "failed" when both
\* fail.  QFile renames and copies onto no entry that is there, moves no
\* directory below itself, and copies files only.
paste_file(n, index, moved) ==
    IF n.cut_source_path = None THEN n
    ELSE LET dest_dir == get_current_directory(n, index)
             source_path == n.cut_source_path
             file_name == basename(source_path)
             dest_path == joinpath(dest_dir, NamePath(file_name))
             dst == resolve(dest_path)
             free == /\ lexists(n.fs, source_path)
                     /\ ~lexists(n.fs, dst)
                     /\ is_dir(n.fs, parent(dst))
                     /\ source_path \notin parents(dst)
         IN  IF dest_dir = None THEN n
             ELSE IF source_path = dest_path
             THEN [n EXCEPT !.log.dest = dest_path,
                            !.log.status = "Source and destination are the same"]
             ELSE IF exists(n.fs, dst)
             THEN [n EXCEPT !.log.dest = dest_path,
                            !.log.status = "File already exists"]
             ELSE IF free /\ moved = "renamed"
             THEN [n EXCEPT !.fs = move(@, source_path, dst),
                            !.cut_source_path = None,
                            !.log.dest = dest_path,
                            !.log.status = "Moved to"]
             ELSE IF free /\ moved \in {"copied", "kept"} /\ is_file(n.fs, source_path)
             THEN [n EXCEPT !.fs = IF moved = "copied"
                                   THEN move(@, source_path, dst)
                                   ELSE (dst :> @[source_path]) @@ @,
                            !.cut_source_path = None,
                            !.log.dest = dest_path,
                            !.log.status = "Moved to"]
             ELSE [n EXCEPT !.cut_source_path = None,
                            !.log.dest = dest_path,
                            !.log.status = "Failed to move file"]

\* The disk the tree works on: the wiki with one directory, one file and
\* /wiki/a/old, a link left behind by a file that was removed.
TreeFs ==
    (AbsPath(<<>>) :> Dir) @@
    (AbsPath(<<"wiki">>) :> Dir) @@
    (AbsPath(<<"wiki", "a">>) :> Dir) @@
    (AbsPath(<<"wiki", "a", "b.md">>) :> File(0)) @@
    (AbsPath(<<"wiki", "a", "old">>) :> Link)

\* The current index of the tree view: invalid, or one of the entries shown.
TreeIndexes == {None} \cup TreeEntries

CommitTree(n, op, index) ==
    /\ fs' = n.fs
    /\ cut_source_path' = n.cut_source_path
    /\ last' = [op |-> op, target |-> index, from |-> current_file,
                log |-> n.log]
    /\ UNCHANGED <<current_file, project_dir, unsaved_changes, is_view_mode,
                   editor, title>>

\* The window as main leaves it: set_project_directory("./wiki/") has run
\* and no file is open.
InitTree ==
    /\ current_file = None
    /\ project_dir = Path(Target(FALSE, <<".", "wiki", "">>))
    /\ unsaved_changes = FALSE
    /\ is_view_mode = FALSE
    /\ editor = 0
    /\ title = BaseTitle
    /\ fs = TreeFs
    /\ cut_source_path = None
    /\ last = [op |-> "set_project_directory", target |-> None, from |-> None,
               log |-> [EmptyLog EXCEPT !.status = "Project opened"]]

CreateNewFile ==
    /\ Cardinality(DOMAIN fs) < MaxEntries
    /\ \E index \in TreeIndexes :
       \E file_name \in FileNames \cup {""} :
       \E ok \in (IF file_name = "" THEN BOOLEAN ELSE {TRUE}) :
       \E osOk \in (IF file_name = "" THEN {TRUE} ELSE BOOLEAN) :
           CommitTree(create_new_file(Navigator, index, file_name, ok, osOk),
                      "create_new_file", index)

DeleteSelected ==
    \E index \in TreeIndexes :
    \E confirm \in BOOLEAN :
    \E success \in (IF confirm THEN BOOLEAN ELSE {TRUE}) :
        CommitTree(delete_selected(Navigator, index, confirm, success),
                   "delete_selected", index)

RenameSelected ==
    \E index \in TreeIndexes :
    \E new_name \in FileNames \cup {""} :
    \E ok \in (IF new_name = "" THEN BOOLEAN ELSE {TRUE}) :
    \E osOk \in (IF new_name = "" THEN {TRUE} ELSE BOOLEAN) :
        CommitTree(rename_selected(Navigator, index, new_name, ok, osOk),
                   "rename_selected", index)

CutSelected ==
    \E index \in TreeIndexes :
        CommitTree(cut_selected(Navigator, index), "cut_selected", index)

PasteFile ==
    \E index \in TreeIndexes :
    \E moved \in {"renamed", "copied", "failed"}
                  \cup (IF Cardinality(DOMAIN fs) < MaxEntries THEN {"kept"} ELSE {}) :
        CommitTree(paste_file(Navigator, index, moved), "paste_file", index)

NextTree ==
    \/ CreateNewFile
    \/ DeleteSelected
    \/ RenameSelected
    \/ CutSelected
    \/ PasteFile

SpecTree == InitTree /\ [][NextTree]_vars

-----------------------------------------------------------------------------
(* Vocabulary of the properties *)

Navigated == last.op = "navigate_to_file"

\* p is the directory root or lies below it, both taken as absolute paths
\* with their ".." collapsed.
Within(root, p) ==
    LET r == resolve(root).parts
        q == resolve(p).parts
    IN  Len(r) <= Len(q) /\ SubSeq(q, 1, Len(r)) = r

\* The path a link target denotes when it is read against directory dir.
Denoted(dir, target) ==
    resolve(IF target.abs THEN Path(target) ELSE joinpath(dir, Path(target)))

\* The directory links are read against in C1: that of the open file, and
\* the working directory when no file is open.
LinkDirectory(file) == IF file = None THEN Cwd ELSE parent(file)

AnswersGiven(log) == {log.answers[i] : i \in 1..Len(log.answers)}

WritesDone(log) == {log.writes[i] : i \in 1..Len(log.writes)}

FileB == AbsPath(<<"wiki", "a", "b.md">>)

FileC == AbsPath(<<"wiki", "a", "c.md">>)

EmptyTarget == Target(FALSE, <<>>)

-----------------------------------------------------------------------------
(* Properties *)

\* C1: a navigation whose target denotes a path that is neither the project
\* directory nor below it never calls open_file: nothing is read, and
\* current_file and the editor stay as they were.
C1_OutsideNeverOpened ==
    [][(/\ last'.op = "navigate_to_file"
        /\ project_dir # None
        /\ ~Within(project_dir, Denoted(LinkDirectory(current_file), last'.target)))
       => (/\ last'.log.opened = None
           /\ last'.log.read = "none"
           /\ current_file' = current_file
           /\ editor' = editor)]_vars

\* Scenario B: root /wiki, current /wiki/a/b.md, target ../../../etc/passwd,
\* turned away as outside the project.
C1_Witness ==
    /\ Navigated
    /\ project_dir = WikiDir
    /\ last.from = FileB
    /\ last.target = Target(FALSE, <<"..", "..", "..", "etc", "passwd">>)
    /\ last.log.probed = AbsPath(<<"etc", "passwd">>)
    /\ last.log.status = "Cannot navigate outside project directory"

\* C2: current_file is None or a path equal to or below the project
\* directory.
C2_CurrentFileWithinProject ==
    current_file = None \/ (project_dir # None /\ Within(project_dir, current_file))

\* C3: set_project_directory(new_root) leaves current_file None, makes
\* new_root the project directory and loads no file.
C3_SetProjectClearsCurrentFile ==
    last.op = "set_project_directory"
        => (/\ current_file = None
            /\ project_dir = Path(last.target)
            /\ last.log.read = "none")

\* C4: with no file open, a relative target is read against the project
\* directory: when <project_dir>/<target> is a file and the user does not
\* cancel, that file is the one handed to open_file.
C4_NoFileResolvesAgainstProject ==
    [][(/\ last'.op = "navigate_to_file"
        /\ current_file = None
        /\ project_dir # None
        /\ ~last'.target.abs
        /\ "Cancel" \notin AnswersGiven(last'.log)
        /\ is_file(fs, Denoted(project_dir, last'.target)))
       => last'.log.opened = Denoted(project_dir, last'.target)]_vars

\* C5: a path navigate_to_file hands to open_file is an existing regular
\* file equal to or below the project directory.
C5_OpenedIsFileInProject ==
    (Navigated /\ last.log.opened # None)
        => (/\ is_file(fs, last.log.opened)
            /\ project_dir # None
            /\ Within(project_dir, last.log.opened))

\* C6: an empty target is turned away before any path is checked for
\* containment or existence; open_file is not called, and current_file and
\* the editor stay as they were.
C6_EmptyTargetMalformed ==
    [][(last'.op = "navigate_to_file" /\ last'.target = EmptyTarget)
       => (/\ last'.log.probed = None
           /\ last'.log.opened = None
           /\ current_file' = current_file
           /\ editor' = editor)]_vars

\* C7: with a file open, the path a relative target is checked as is the
\* target read against the directory of current_file; and when the project
\* directory is an absolute path holding that file, the user does not cancel
\* and the read does not fail, that file becomes current_file.
C7_RelativeToCurrentFile ==
    [][(/\ last'.op = "navigate_to_file"
        /\ current_file # None
        /\ ~last'.target.abs)
       => LET expected == Denoted(parent(current_file), last'.target)
          IN  /\ last'.log.probed \in {None, expected}
              /\ last'.log.opened \in {None, expected}
              /\ (last'.log.probed = None)
                    => (project_dir = None \/ "Cancel" \in AnswersGiven(last'.log))
              /\ (/\ project_dir # None
                  /\ project_dir.abs
                  /\ Within(project_dir, expected)
                  /\ is_file(fs, expected)
                  /\ "Cancel" \notin AnswersGiven(last'.log)
                  /\ last'.log.read # "fail")
                    => (last'.log.read = "ok" /\ current_file' = expected)]_vars

\* Scenario A: root /wiki, current /wiki/a/b.md, target ./c.md opens
\* /wiki/a/c.md.
C7_Witness ==
    /\ Navigated
    /\ project_dir = WikiDir
    /\ last.from = FileB
    /\ last.target = Target(FALSE, <<".", "c.md">>)
    /\ last.log.read = "ok"
    /\ current_file = FileC

\* The navigation ended in a rejection or in a failed read.
Refused(entry) ==
    /\ entry.op = "navigate_to_file"
    /\ \/ entry.log.status \in {"Cannot navigate outside project directory",
                                "does not exist"}
       \/ entry.log.read = "fail"

\* C8 as stated: a navigation that is rejected or whose read fails leaves
\* current_file, the project directory, the editor and unsaved_changes as
\* they were, and current_file changes only after a successful read.
C8_RefusedLeavesAllUnchanged ==
    [][/\ Refused(last')
          => (/\ current_file' = current_file
              /\ project_dir' = project_dir
              /\ editor' = editor
              /\ unsaved_changes' = unsaved_changes)
       /\ (last'.op = "navigate_to_file" /\ current_file' # current_file)
          => last'.log.read = "ok"]_vars

\* C8 amended: as above, except that unsaved_changes is cleared when the
\* user answered Save at the prompt and the write of that save succeeded.
C8_RefusedLeavesDocumentUnchanged ==
    [][/\ Refused(last')
          => (/\ current_file' = current_file
              /\ project_dir' = project_dir
              /\ editor' = editor
              /\ unsaved_changes' = (unsaved_changes /\ "ok" \notin WritesDone(last'.log)))
       /\ (last'.op = "navigate_to_file" /\ current_file' # current_file)
          => last'.log.read = "ok"]_vars

\* A read that failed after the prompt was answered with Discard.
C8_Witness ==
    /\ Navigated
    /\ last.log.read = "fail"
    /\ last.log.answers = <<"Discard", "Discard">>
    /\ last.from = FileB
    /\ current_file = FileB
    /\ unsaved_changes

C10_FailedWriteKeepsDirty ==
    [][/\ (/\ "fail" \in WritesDone(last'.log)
           /\ "ok" \notin WritesDone(last'.log)
           /\ last'.log.read # "ok")
          => (/\ unsaved_changes' = unsaved_changes
              /\ current_file' = current_file
              /\ editor' = editor
              /\ fs' = fs)
       /\ (last'.op = "save_file" /\ unsaved_changes /\ ~unsaved_changes')
          => (/\ last'.log.writes = <<"ok">>
              /\ current_file' = current_file
              /\ fs'[current_file] = File(editor))]_vars

C10_Witness ==
    /\ last.op = "save_file"
    /\ last.log.writes = <<"fail">>
    /\ current_file = FileB
    /\ unsaved_changes
    /\ editor # fs[FileB].text

\* C11: the window starts in edit mode, and toggle_view_mode flips the mode
\* and nothing else: current_file, the project directory, the editor and
\* unsaved_changes stay as they were, so two toggles in a row give back the
\* mode and the editor text they started from.
C11_ToggleOnlyFlipsMode ==
    /\ ~is_view_mode
    /\ [][last'.op = "toggle_view_mode"
          => (/\ is_view_mode' = ~is_view_mode
              /\ current_file' = current_file
              /\ project_dir' = project_dir
              /\ editor' = editor
              /\ unsaved_changes' = unsaved_changes
              /\ fs' = fs)]_vars

\* Back in edit mode with a file open and an edit not yet saved.
C11_Witness ==
    /\ last.op = "toggle_view_mode"
    /\ ~is_view_mode
    /\ last.log.status = "Edit mode"
    /\ current_file = FileB
    /\ unsaved_changes
    /\ editor # fs[FileB].text

\* A load replaced the editor text while it had unsaved changes.
ReplacedUnsaved(entry) ==
    /\ entry.op \in {"navigate_to_file", "open_selected_path"}
    /\ entry.log.read = "ok"

\* C12: when a load replaces editor text that had unsaved changes, the user
\* answered Discard at the prompt, or answered Save and the text was written
\* to current_file before it was replaced.
C12_UnsavedNeverLost ==
    [][(unsaved_changes /\ ReplacedUnsaved(last'))
       => \/ "Discard" \in AnswersGiven(last'.log)
          \/ /\ "Save" \in AnswersGiven(last'.log)
             /\ "ok" \in WritesDone(last'.log)
             /\ current_file # None
             /\ is_file(fs', current_file)
             /\ fs'[current_file].text = editor]_vars

\* C13: one navigate_to_file call raises the unsaved-changes prompt at most
\* once.
C13_PromptAtMostOnce ==
    Navigated => Len(last.log.answers) <= 1

\* The title the window should show: the base title, with the file name
\* when a file is open, behind one "*" when there are unsaved changes.
ExpectedTitle ==
    (IF unsaved_changes THEN <<"*">> ELSE <<>>)
        \o (IF current_file = None THEN BaseTitle ELSE FileTitle(current_file))

\* C14: the window title is the base title, prefixed with exactly one "*"
\* when unsaved_changes is true and with nothing when it is false.
C14_TitleMatchesState ==
    title = ExpectedTitle


\* The handlers of the file tree that write a new entry.
TreeWrites == {"create_new_file", "rename_selected", "paste_file"}

\* The status bar messages that tell the destination is taken.
TakenReports ==
    { "A file with that name already exist. Nothing has been done.",
      "File with this name already exists. Nothing has been done.",
      "File already exists",
      "Source and destination are the same" }

\* The destination the handler computed has an entry on the disk.
DestinationTaken(files, entry) ==
    entry.log.dest # None /\ lexists(files, resolve(entry.log.dest))

\* C15: create_new_file, rename_selected and paste_file never replace an
\* entry of the filesystem: every path that has an entry before and after
\* the handler has the same entry; and when the destination has an entry
\* already, the handler reports it in the status bar, leaves the disk as
\* it was, and paste_file keeps cut_source_path.
C15_NeverReplacesExisting ==
    [][last'.op \in TreeWrites
       => /\ \A p \in DOMAIN fs \cap DOMAIN fs' : fs'[p] = fs[p]
          /\ DestinationTaken(fs, last')
                => /\ last'.log.status \in TakenReports
                   /\ fs' = fs
                   /\ last'.op = "paste_file"
                         => cut_source_path' = cut_source_path]_vars

=========================================================================
